---- MODULE Spec2Model ----
(***************************************************************************)
(* The Minesweeper knowledge base of                                       *)
(* "Lecture 01-Knowledge/projects/minesweeper/minesweeper.py":             *)
(* Sentence, MinesweeperAI (mark_mine, mark_safe, add_knowledge and the    *)
(* move selectors) and the Board (Minesweeper), with the game loop of      *)
(* runner.py; the tictactoe game and minimax of                            *)
(* "00-search/projects/tictactoe/tictactoe.py"; and model_check of         *)
(* "Lecture 01-Knowledge/projects/knights/logic.py".                       *)
(*                                                                         *)
(* add_knowledge is followed through its three phases: the part up to the  *)
(* append of the new sentence, one step per scan of the propagation loop,  *)
(* and the subset-elimination pass.  While a call is in progress (pc is    *)
(* not "ready") no other call can start, so every call runs to its return. *)
(***************************************************************************)
EXTENDS Integers, Sequences, FiniteSets, TLC

VARIABLES layout,      \* Minesweeper.mines: the Board's mine layout
          moves_made,  \* MinesweeperAI.moves_made
          safes,       \* MinesweeperAI.safes
          mines,       \* MinesweeperAI.mines
          knowledge,   \* MinesweeperAI.knowledge: sequence of sentences
          pc,          \* position inside add_knowledge, "ready" between calls
          scans,       \* scans of the propagation loop done by the current call
          loop_cells,  \* cells held by stored sentences when the loop was entered
          elim_from,   \* len(knowledge) when the subset-elimination pass started
          last_call,   \* the call that is running or has just returned
          calls,       \* number of calls made so far
          args,        \* the arguments of that call
          result,      \* the value that call returned
          revealed,    \* runner.py: cells revealed by the user or the AI
          flags,       \* runner.py: cells flagged as mines
          lost,        \* runner.py: the game-over condition
          state,       \* tictactoe.py: the board of the game being played
          by_minimax   \* every move of that game so far was returned by minimax

vars == <<layout, moves_made, safes, mines, knowledge, pc, scans, loop_cells,
          elim_from, last_call, calls, args, result, revealed, flags, lost,
          state, by_minimax>>

(* The variables of the runner and of the tictactoe game, which no method  *)
(* of minesweeper.py reads or writes.                                      *)
other_vars == <<revealed, flags, lost, state, by_minimax>>

(* Bounds of the model. *)
Height == 3
Width == 3
Mines == 2
MaxCount == 2
MaxCalls == 3
MaxGameCalls == 4
PlayMines == 4
MaxObserveCalls == 2
MaxFlags == 1
AIGameMines == 1
CoordMargin == 1
NumSymbols == 2
MaxOperands == 2
KnowledgeDepth == 2
QueryDepth == 1

(* The largest count a revealed cell can show: the cells around it. *)
MaxNearby == 8

Cells == (0 .. Height - 1) \X (0 .. Width - 1)

Layouts == {L \in SUBSET Cells : Cardinality(L) = Mines}

(* The boards of the full games: Minesweeper(mines=PlayMines). *)
PlayLayouts == {L \in SUBSET Cells : Cardinality(L) = PlayMines}

(* The boards of the games the AI plays alone. *)
AIGameLayouts == {L \in SUBSET Cells : Cardinality(L) = AIGameMines}

(* Python's None. *)
None == <<>>

(* ---------------------------- Board ------------------------------------ *)

(* The 3x3 area around cell, clipped to the board, without cell itself. *)
Neighbors(cell) ==
  {n \in Cells : /\ n # cell
                 /\ n[1] \in (cell[1] - 1) .. (cell[1] + 1)
                 /\ n[2] \in (cell[2] - 1) .. (cell[2] + 1)}

nearby_mines_with_cell(board, cell) ==
  Cardinality((Neighbors(cell) \cup {cell}) \cap board)

nearby_mines(board, cell) == Cardinality(Neighbors(cell) \cap board)

(* Minesweeper.mines_found: set at construction, never written again. *)
mines_found == {}

(* --------------------------- Sentence ---------------------------------- *)

Sentence(cells, count) == [cells |-> cells, count |-> count]

known_mines_any_count(s) == IF s.count > 0 THEN s.cells ELSE {}

known_mines_at_most(s) ==
  IF Cardinality(s.cells) <= s.count /\ s.count > 0 THEN s.cells ELSE {}

known_mines(s) ==
  IF Cardinality(s.cells) = s.count /\ s.count > 0 THEN s.cells ELSE {}

known_safes(s) == IF s.count = 0 THEN s.cells ELSE {}

SentenceMarkMine_keep_count(s, cell) ==
  IF cell \in s.cells THEN [s EXCEPT !.cells = @ \ {cell}] ELSE s

SentenceMarkMine(s, cell) ==
  IF cell \in s.cells
    THEN [cells |-> s.cells \ {cell}, count |-> s.count - 1]
    ELSE s

(* The value Sentence.mark_mine and Sentence.mark_safe return. *)
SentenceMarkResult(s, cell) == cell \in s.cells

SentenceMarkSafe_decrement(s, cell) ==
  IF cell \in s.cells
    THEN [cells |-> s.cells \ {cell}, count |-> s.count - 1]
    ELSE s

SentenceMarkSafe_keep_cell(s, cell) == s

SentenceMarkSafe(s, cell) ==
  IF cell \in s.cells THEN [s EXCEPT !.cells = @ \ {cell}] ELSE s

(* ------------------------- MinesweeperAI ------------------------------- *)

(* The AI's fields as one value, for the operators below. *)
AI == [moves_made |-> moves_made, safes |-> safes, mines |-> mines,
       knowledge |-> knowledge]

mark_mine_skip_sentences(ai, cell) ==
  IF cell \notin ai.mines THEN [ai EXCEPT !.mines = @ \cup {cell}] ELSE ai

mark_mine(ai, cell) ==
  IF cell \notin ai.mines
    THEN [ai EXCEPT !.mines = @ \cup {cell},
                    !.knowledge = [i \in DOMAIN @ |-> SentenceMarkMine(@[i], cell)]]
    ELSE ai

mark_safe_unflag(ai, cell) ==
  IF cell \notin ai.safes
    THEN [ai EXCEPT !.safes = @ \cup {cell},
                    !.mines = @ \ {cell},
                    !.knowledge = [i \in DOMAIN @ |-> SentenceMarkSafe(@[i], cell)]]
    ELSE ai

mark_safe(ai, cell) ==
  IF cell \notin ai.safes
    THEN [ai EXCEPT !.safes = @ \cup {cell},
                    !.knowledge = [i \in DOMAIN @ |-> SentenceMarkSafe(@[i], cell)]]
    ELSE ai

(* "for mine in new_mines: self.mark_mine(mine)": the marks of distinct    *)
(* cells commute, so the iteration order of the set does not matter.       *)
RECURSIVE mark_each_mine(_, _)
mark_each_mine(ai, cs) ==
  IF cs = {} THEN ai
  ELSE LET c == CHOOSE x \in cs : TRUE
       IN mark_each_mine(mark_mine(ai, c), cs \ {c})

RECURSIVE mark_each_safe(_, _)
mark_each_safe(ai, cs) ==
  IF cs = {} THEN ai
  ELSE LET c == CHOOSE x \in cs : TRUE
       IN mark_each_safe(mark_safe(ai, c), cs \ {c})

(* add_knowledge, step 2: the unknown neighbours and the adjusted count. *)
new_cells_keep_safes(ai, cell) == Neighbors(cell) \ ai.mines

new_cells(ai, cell) == Neighbors(cell) \ (ai.mines \cup ai.safes)

count_unadjusted(ai, cell, count) == count

count_after_ignoring_mines(ai, cell, count) ==
  count - Cardinality(Neighbors(cell) \cap ai.mines)

(* add_knowledge, steps 1 and 2, up to the append of the new sentence. *)
add_sentence(ai, cell, count) ==
  LET a1 == mark_safe([ai EXCEPT !.moves_made = @ \cup {cell}], cell)
      new_sentence == Sentence(new_cells(a1, cell),
                               count_after_ignoring_mines(a1, cell, count))
  IN IF new_sentence.cells # {}
       THEN [a1 EXCEPT !.knowledge = Append(@, new_sentence)]
       ELSE a1

(* add_knowledge, step 3: one pass of the for loop over the deep copy. *)
RECURSIVE scan_from(_, _, _, _)
scan_from(ai, snapshot, i, changes_made) ==
  IF i > Len(snapshot) THEN [ai |-> ai, changes_made |-> changes_made]
  ELSE LET new_mines == known_mines(snapshot[i])
           new_safes == known_safes(snapshot[i])
           a1 == IF new_mines # {} THEN mark_each_mine(ai, new_mines) ELSE ai
           a2 == IF new_safes # {} THEN mark_each_safe(a1, new_safes) ELSE a1
       IN scan_from(a2, snapshot, i + 1,
                    changes_made \/ new_mines # {} \/ new_safes # {})

scan(ai) == scan_from(ai, ai.knowledge, 1, FALSE)

(* "while changes_made": whether the loop runs another scan. *)
loop_once(changes_made) == FALSE

loop_again(changes_made) == changes_made

RECURSIVE propagate(_)
propagate(ai) ==
  LET r == scan(ai)
  IN IF loop_again(r.changes_made) THEN propagate(r.ai) ELSE r.ai

(* Sentence.__eq__ through "new_sentence not in self.knowledge". *)
InKnowledge(s, kn) == \E k \in DOMAIN kn : kn[k] = s

(* The mutual test of one pair of sentences: at most one new sentence. *)
pair_inference_one_way(kn, i, j) ==
  LET d21 == Sentence(kn[j].cells \ kn[i].cells, kn[j].count - kn[i].count)
  IN IF /\ kn[i].cells \subseteq kn[j].cells
        /\ d21.cells # {}
        /\ ~InKnowledge(d21, kn)
       THEN <<d21>> ELSE <<>>

pair_inference(kn, i, j) ==
  LET sentence_1 == kn[i]
      sentence_2 == kn[j]
      d21 == Sentence(sentence_2.cells \ sentence_1.cells,
                      sentence_2.count - sentence_1.count)
      d12 == Sentence(sentence_1.cells \ sentence_2.cells,
                      sentence_1.count - sentence_2.count)
      keep(d) == IF d.cells # {} /\ ~InKnowledge(d, kn) THEN <<d>> ELSE <<>>
  IN IF sentence_1.cells \subseteq sentence_2.cells THEN keep(d21)
     ELSE IF sentence_2.cells \subseteq sentence_1.cells THEN keep(d12)
     ELSE <<>>

(* The inner loop: sentence i against the sentences j, j + 1, ... *)
RECURSIVE inner_inferences(_, _, _)
inner_inferences(kn, i, j) ==
  IF j > Len(kn) THEN <<>>
  ELSE pair_inference(kn, i, j) \o inner_inferences(kn, i, j + 1)

(* add_knowledge, step 4: the inferences of the pairs (i, j), i < j, in    *)
(* the order of the two nested loops.                                      *)
RECURSIVE new_inferences(_, _)
new_inferences(kn, i) ==
  IF i > Len(kn) THEN <<>>
  ELSE inner_inferences(kn, i, i + 1) \o new_inferences(kn, i + 1)

subset_elimination_then_propagate(ai) ==
  propagate([ai EXCEPT !.knowledge = @ \o new_inferences(@, 1)])

subset_elimination(ai) ==
  [ai EXCEPT !.knowledge = @ \o new_inferences(@, 1)]

(* add_knowledge as a whole, from call to return. *)
add_knowledge(ai, cell, count) ==
  subset_elimination(propagate(add_sentence(ai, cell, count)))

make_safe_move_candidates == {c \in safes : c \notin moves_made /\ c \notin mines}

(* The values make_safe_move can return: the first cell of the iteration   *)
(* over the set self.safes that passes the test, in an order the set does  *)
(* not fix, or None.                                                       *)
make_safe_move_ignore_mines(ai) ==
  LET found == {c \in ai.safes : c \notin ai.moves_made}
  IN IF found # {} THEN found ELSE {None}

make_safe_move_replay(ai) ==
  LET found == {c \in ai.safes : c \notin ai.mines}
  IN IF found # {} THEN found ELSE {None}

make_safe_move(ai) ==
  LET found == {c \in ai.safes : c \notin ai.moves_made /\ c \notin ai.mines}
  IN IF found # {} THEN found ELSE {None}

(* The values make_random_move can return: random.choice(possible_moves),  *)
(* or None.                                                                *)
make_random_move_ignore_mines(ai) ==
  LET total_cells == Height * Width
      possible_moves == {c \in Cells : c \notin ai.moves_made}
  IN IF Cardinality(ai.moves_made) + Cardinality(ai.mines) >= total_cells
       THEN {None}
       ELSE IF possible_moves # {} THEN possible_moves ELSE {None}

make_random_move_off_by_one(ai) ==
  LET total_cells == Height * Width
      possible_moves == {c \in Cells : c \notin ai.moves_made /\ c \notin ai.mines}
  IN IF Cardinality(ai.moves_made) + Cardinality(ai.mines) >= total_cells - 1
       THEN {None}
       ELSE IF possible_moves # {} THEN possible_moves ELSE {None}

make_random_move_replay(ai) ==
  LET total_cells == Height * Width
      possible_moves == {c \in Cells : c \notin ai.mines}
  IN IF Cardinality(ai.moves_made) + Cardinality(ai.mines) >= total_cells
       THEN {None}
       ELSE IF possible_moves # {} THEN possible_moves ELSE {None}

make_random_move(ai) ==
  LET total_cells == Height * Width
      possible_moves == {c \in Cells : c \notin ai.moves_made /\ c \notin ai.mines}
  IN IF Cardinality(ai.moves_made) + Cardinality(ai.mines) >= total_cells
       THEN {None}
       ELSE IF possible_moves # {} THEN possible_moves ELSE {None}

RECURSIVE TotalCells(_)
TotalCells(kn) ==
  IF kn = <<>> THEN 0 ELSE Cardinality(Head(kn).cells) + TotalCells(Tail(kn))

(* ----------------------------- tictactoe ------------------------------- *)

X == "X"
O == "O"
EMPTY == "None"

(* Row and column indices of the board. *)
Grid == 0 .. 2

initial_state == [row \in Grid |-> [col \in Grid |-> EMPTY]]

(* The cells of the board that hold a mark. *)
Marked(board) == {a \in Grid \X Grid : board[a[1]][a[2]] # EMPTY}

player_always_X(board) == X

(* is_even is flipped once for every cell that is not EMPTY. *)
player(board) == IF Cardinality(Marked(board)) % 2 = 0 THEN X ELSE O

actions(board) == {a \in Grid \X Grid : board[a[1]][a[2]] = EMPTY}

(* What a call of result(board, action) produces: the exception it raises  *)
(* or the board it returns.                                                *)
Raise(message) == [raised |-> TRUE, value |-> message]
Return(value) == [raised |-> FALSE, value |-> value]

ttt_result_overwrite(board, action) ==
  IF action[1] < 0 \/ action[1] > 2 \/ action[2] < 0 \/ action[2] > 2
    THEN Raise("Invalid coordinates")
    ELSE Return([board EXCEPT ![action[1]][action[2]] = player(board)])

ttt_result(board, action) ==
  IF action[1] < 0 \/ action[1] > 2 \/ action[2] < 0 \/ action[2] > 2
    THEN Raise("Invalid coordinates")
  ELSE IF board[action[1]][action[2]] # EMPTY
    THEN Raise("Position already occupied")
  ELSE Return([board EXCEPT ![action[1]][action[2]] = player(board)])

(* The lines winner looks at, in the order it looks at them: row i and     *)
(* column i for i = 0, 1, 2, then the two diagonals.                       *)
WinnerLines ==
  << <<<<0, 0>>, <<0, 1>>, <<0, 2>>>>, <<<<0, 0>>, <<1, 0>>, <<2, 0>>>>,
     <<<<1, 0>>, <<1, 1>>, <<1, 2>>>>, <<<<0, 1>>, <<1, 1>>, <<2, 1>>>>,
     <<<<2, 0>>, <<2, 1>>, <<2, 2>>>>, <<<<0, 2>>, <<1, 2>>, <<2, 2>>>>,
     <<<<0, 0>>, <<1, 1>>, <<2, 2>>>>, <<<<0, 2>>, <<1, 1>>, <<2, 0>>>> >>

winner(board) ==
  LET at(a) == board[a[1]][a[2]]
      full == {k \in DOMAIN WinnerLines :
                 /\ at(WinnerLines[k][1]) # EMPTY
                 /\ at(WinnerLines[k][1]) = at(WinnerLines[k][2])
                 /\ at(WinnerLines[k][2]) = at(WinnerLines[k][3])}
  IN IF full = {} THEN EMPTY
     ELSE at(WinnerLines[CHOOSE k \in full : \A l \in full : k <= l][1])

terminal(board) ==
  IF winner(board) # EMPTY THEN TRUE
  ELSE ~ \E row \in Grid : \E col \in Grid : board[row][col] = EMPTY

utility(board) ==
  LET won == winner(board)
  IN IF won = X THEN 1 ELSE IF won = O THEN -1 ELSE 0

Largest(values) == CHOOSE v \in values : \A w \in values : w <= v
Smallest(values) == CHOOSE v \in values : \A w \in values : v <= w

(* The first components of max_value(board) and min_value(board): the      *)
(* loops keep the largest, or the smallest, value of the successors.       *)
RECURSIVE max_value(_), min_value(_)
max_value(board) ==
  IF terminal(board) THEN utility(board)
  ELSE Largest({min_value(ttt_result(board, action).value) :
                  action \in actions(board)})

min_value_greedy(board) ==
  IF terminal(board) THEN utility(board)
  ELSE Largest({max_value(ttt_result(board, action).value) :
                  action \in actions(board)})

min_value(board) ==
  IF terminal(board) THEN utility(board)
  ELSE Smallest({max_value(ttt_result(board, action).value) :
                   action \in actions(board)})

(* The second components: best_action is the first action, in the order   *)
(* the loop takes from the set actions(board), whose value is the largest  *)
(* (the smallest); the set does not fix that order.                        *)
max_value_best_action(board) ==
  IF terminal(board) THEN {None}
  ELSE LET new_value == [action \in actions(board) |->
                           min_value(ttt_result(board, action).value)]
           value == Largest({new_value[action] : action \in actions(board)})
       IN {action \in actions(board) : new_value[action] = value}

min_value_best_action(board) ==
  IF terminal(board) THEN {None}
  ELSE LET new_value == [action \in actions(board) |->
                           max_value(ttt_result(board, action).value)]
           value == Smallest({new_value[action] : action \in actions(board)})
       IN {action \in actions(board) : new_value[action] = value}

(* The values minimax(board) can return. *)
minimax(board) ==
  IF player(board) = X THEN max_value_best_action(board)
  ELSE min_value_best_action(board)

(* ------------------------------- logic ---------------------------------- *)

(* The names of the propositional symbols. *)
SymbolNames == 1 .. NumSymbols

Symbol(name) == [op |-> "Symbol", name |-> name]
Not(operand) == [op |-> "Not", operand |-> operand]
And(conjuncts) == [op |-> "And", conjuncts |-> conjuncts]
Or(disjuncts) == [op |-> "Or", disjuncts |-> disjuncts]
Implication(antecedent, consequent) ==
  [op |-> "Implication", antecedent |-> antecedent, consequent |-> consequent]
Biconditional(left, right) ==
  [op |-> "Biconditional", left |-> left, right |-> right]

(* The argument lists the constructors of And and Or accept: any number   *)
(* of sentences, none included.                                            *)
Operands(S) == UNION {[1 .. n -> S] : n \in 0 .. MaxOperands}

(* The sentences nested at most depth connectives deep. *)
RECURSIVE Sentences(_)
Sentences(depth) ==
  IF depth = 0 THEN {Symbol(name) : name \in SymbolNames}
  ELSE LET S == Sentences(depth - 1)
       IN S \cup {Not(s) : s \in S}
            \cup {And(ops) : ops \in Operands(S)}
            \cup {Or(ops) : ops \in Operands(S)}
            \cup {Implication(a, c) : a \in S, c \in S}
            \cup {Biconditional(l, r) : l \in S, r \in S}

(* evaluate(model) of every class. *)
RECURSIVE evaluate(_, _)
evaluate(sentence, model) ==
  CASE sentence.op = "Symbol" -> model[sentence.name]
    [] sentence.op = "Not" -> ~evaluate(sentence.operand, model)
    [] sentence.op = "And" ->
         \A i \in DOMAIN sentence.conjuncts : evaluate(sentence.conjuncts[i], model)
    [] sentence.op = "Or" ->
         \E i \in DOMAIN sentence.disjuncts : evaluate(sentence.disjuncts[i], model)
    [] sentence.op = "Implication" ->
         (~evaluate(sentence.antecedent, model)) \/ evaluate(sentence.consequent, model)
    [] sentence.op = "Biconditional" ->
         \/ evaluate(sentence.left, model) /\ evaluate(sentence.right, model)
         \/ ~evaluate(sentence.left, model) /\ ~evaluate(sentence.right, model)

(* set.union over the unpacked list: a TypeError without an argument, and *)
(* an exception of an argument's own evaluation comes first.              *)
set_union(sets) ==
  IF \E i \in DOMAIN sets : sets[i].raised THEN Raise("TypeError")
  ELSE IF sets = <<>> THEN Raise("TypeError")
  ELSE Return(UNION {sets[i].value : i \in DOMAIN sets})

(* symbols() of every class. *)
RECURSIVE symbols(_)
symbols(sentence) ==
  CASE sentence.op = "Symbol" -> Return({sentence.name})
    [] sentence.op = "Not" -> symbols(sentence.operand)
    [] sentence.op = "And" ->
         set_union([i \in DOMAIN sentence.conjuncts |-> symbols(sentence.conjuncts[i])])
    [] sentence.op = "Or" ->
         set_union([i \in DOMAIN sentence.disjuncts |-> symbols(sentence.disjuncts[i])])
    [] sentence.op = "Implication" ->
         set_union(<<symbols(sentence.antecedent), symbols(sentence.consequent)>>)
    [] sentence.op = "Biconditional" ->
         set_union(<<symbols(sentence.left), symbols(sentence.right)>>)

(* check_all: "remaining.pop()" takes any symbol; both branches are always *)
(* explored down to the full assignments, so the order does not show in    *)
(* the value returned.                                                     *)
RECURSIVE check_all(_, _, _, _)
check_all(kb, query, remaining_symbols, model) ==
  IF remaining_symbols = {}
    THEN IF evaluate(kb, model) THEN evaluate(query, model) ELSE TRUE
    ELSE LET p == CHOOSE q \in remaining_symbols : TRUE
             remaining == remaining_symbols \ {p}
             model_true == [n \in DOMAIN model \cup {p} |->
                              IF n = p THEN TRUE ELSE model[n]]
             model_false == [n \in DOMAIN model \cup {p} |->
                               IF n = p THEN FALSE ELSE model[n]]
         IN /\ check_all(kb, query, remaining, model_true)
            /\ check_all(kb, query, remaining, model_false)

model_check(kb, query) ==
  LET all_symbols == set_union(<<symbols(kb), symbols(query)>>)
  IN IF all_symbols.raised THEN all_symbols
     ELSE Return(check_all(kb, query, all_symbols.value, <<>>))

(* ------------------------------ states --------------------------------- *)

InitAI ==
  /\ moves_made = {}
  /\ safes = {}
  /\ mines = {}
  /\ knowledge = <<>>
  /\ pc = "ready"
  /\ scans = 0
  /\ loop_cells = 0
  /\ elim_from = 0
  /\ last_call = "none"
  /\ calls = 0
  /\ args = <<>>
  /\ result = None
  /\ revealed = {}
  /\ flags = {}
  /\ lost = FALSE
  /\ state = <<>>
  /\ by_minimax = TRUE

(* The knowledge base driven directly through its interface, on a board    *)
(* without mines.                                                          *)
Init == layout = {} /\ InitAI

(* A game: the Board has placed Mines mines. *)
InitGame == layout \in Layouts /\ InitAI

(* A full game on a board with PlayMines mines. *)
InitPlay == layout \in PlayLayouts /\ InitAI

SetAI(ai) ==
  /\ moves_made' = ai.moves_made
  /\ safes' = ai.safes
  /\ mines' = ai.mines
  /\ knowledge' = ai.knowledge

BeginAddKnowledge(cell, count) ==
  /\ pc = "ready"
  /\ LET ai == add_sentence(AI, cell, count)
     IN /\ SetAI(ai)
        /\ loop_cells' = TotalCells(ai.knowledge)
  /\ pc' = "propagate"
  /\ scans' = 0
  /\ last_call' = "add_knowledge"
  /\ calls' = calls + 1
  /\ args' = <<cell, count>>
  /\ result' = None
  /\ UNCHANGED <<layout, elim_from>>

(* add_knowledge with any cell and any count. *)
Observe ==
  /\ calls < MaxCalls
  /\ \E cell \in Cells, count \in 0 .. MaxCount : BeginAddKnowledge(cell, count)
  /\ UNCHANGED other_vars

(* add_knowledge with any cell and any count a cell can show. *)
ObserveAnyCount ==
  /\ calls < MaxObserveCalls
  /\ \E cell \in Cells, count \in 0 .. MaxNearby : BeginAddKnowledge(cell, count)
  /\ UNCHANGED other_vars

(* add_knowledge as the game calls it: a cell without a mine, with the     *)
(* Board's count.                                                          *)
ObserveTruthful ==
  /\ calls < MaxGameCalls
  /\ \E cell \in Cells \ layout :
       BeginAddKnowledge(cell, nearby_mines(layout, cell))
  /\ UNCHANGED other_vars

(* add_knowledge as the runner calls it in a game: a cell that is not      *)
(* revealed yet and has no mine, with the Board's count.                   *)
ObservePlay ==
  /\ \E cell \in Cells \ (layout \cup moves_made) :
       BeginAddKnowledge(cell, nearby_mines(layout, cell))
  /\ UNCHANGED other_vars

PropagateScan ==
  /\ pc = "propagate"
  /\ LET r == scan(AI)
     IN /\ SetAI(r.ai)
        /\ pc' = IF loop_again(r.changes_made) THEN "propagate" ELSE "eliminate"
  /\ scans' = scans + 1
  /\ UNCHANGED <<layout, loop_cells, elim_from, last_call, calls, args, result>>
  /\ UNCHANGED other_vars

SubsetElimination ==
  /\ pc = "eliminate"
  /\ SetAI(subset_elimination(AI))
  /\ elim_from' = Len(knowledge)
  /\ pc' = "ready"
  /\ UNCHANGED <<layout, scans, loop_cells, last_call, calls, args, result>>
  /\ UNCHANGED other_vars

MarkMine ==
  /\ pc = "ready"
  /\ calls < MaxCalls
  /\ \E cell \in Cells : SetAI(mark_mine(AI, cell)) /\ args' = <<cell>>
  /\ last_call' = "mark_mine"
  /\ calls' = calls + 1
  /\ result' = None
  /\ UNCHANGED <<layout, pc, scans, loop_cells, elim_from>>
  /\ UNCHANGED other_vars

MarkSafe ==
  /\ pc = "ready"
  /\ calls < MaxCalls
  /\ \E cell \in Cells : SetAI(mark_safe(AI, cell)) /\ args' = <<cell>>
  /\ last_call' = "mark_safe"
  /\ calls' = calls + 1
  /\ result' = None
  /\ UNCHANGED <<layout, pc, scans, loop_cells, elim_from>>
  /\ UNCHANGED other_vars

MakeSafeMove ==
  /\ pc = "ready"
  /\ \E r \in make_safe_move(AI) : result' = r
  /\ SetAI(AI)
  /\ last_call' = "make_safe_move"
  /\ args' = <<>>
  /\ UNCHANGED <<layout, pc, scans, loop_cells, elim_from, calls>>
  /\ UNCHANGED other_vars

MakeRandomMove ==
  /\ pc = "ready"
  /\ \E r \in make_random_move(AI) : result' = r
  /\ SetAI(AI)
  /\ last_call' = "make_random_move"
  /\ args' = <<>>
  /\ UNCHANGED <<layout, pc, scans, loop_cells, elim_from, calls>>
  /\ UNCHANGED other_vars

Next ==
  \/ Observe
  \/ PropagateScan
  \/ SubsetElimination
  \/ MarkMine
  \/ MarkSafe
  \/ MakeSafeMove
  \/ MakeRandomMove

Spec == Init /\ [][Next]_vars

NextGame == ObserveTruthful \/ PropagateScan \/ SubsetElimination

SpecGame == InitGame /\ [][NextGame]_vars

(* One Sentence on its own, built by Sentence(cells, count). *)
InitSentence ==
  /\ layout = {}
  /\ moves_made = {}
  /\ safes = {}
  /\ mines = {}
  /\ \E cells \in SUBSET Cells, count \in -1 .. MaxCount :
       knowledge = <<Sentence(cells, count)>>
  /\ pc = "ready"
  /\ scans = 0
  /\ loop_cells = 0
  /\ elim_from = 0
  /\ last_call = "none"
  /\ calls = 0
  /\ args = <<>>
  /\ result = None
  /\ revealed = {}
  /\ flags = {}
  /\ lost = FALSE
  /\ state = <<>>
  /\ by_minimax = TRUE

KnownMines ==
  /\ \E i \in DOMAIN knowledge : result' = known_mines(knowledge[i]) /\ args' = <<i>>
  /\ last_call' = "known_mines"
  /\ UNCHANGED <<layout, moves_made, safes, mines, knowledge, pc, scans,
                 loop_cells, elim_from, calls>>
  /\ UNCHANGED other_vars

KnownSafes ==
  /\ \E i \in DOMAIN knowledge : result' = known_safes(knowledge[i]) /\ args' = <<i>>
  /\ last_call' = "known_safes"
  /\ UNCHANGED <<layout, moves_made, safes, mines, knowledge, pc, scans,
                 loop_cells, elim_from, calls>>
  /\ UNCHANGED other_vars

NextSentence == KnownMines \/ KnownSafes

SpecSentence == InitSentence /\ [][NextSentence]_vars

(* Sentence.mark_mine(cell) and Sentence.mark_safe(cell) on the sentence   *)
(* itself, with any cell.                                                  *)
SentenceMarkMineCall ==
  /\ \E cell \in Cells :
       /\ knowledge' = <<SentenceMarkMine(knowledge[1], cell)>>
       /\ result' = SentenceMarkResult(knowledge[1], cell)
       /\ args' = <<cell>>
  /\ last_call' = "Sentence.mark_mine"
  /\ UNCHANGED <<layout, moves_made, safes, mines, pc, scans, loop_cells,
                 elim_from, calls>>
  /\ UNCHANGED other_vars

SentenceMarkSafeCall ==
  /\ \E cell \in Cells :
       /\ knowledge' = <<SentenceMarkSafe(knowledge[1], cell)>>
       /\ result' = SentenceMarkResult(knowledge[1], cell)
       /\ args' = <<cell>>
  /\ last_call' = "Sentence.mark_safe"
  /\ UNCHANGED <<layout, moves_made, safes, mines, pc, scans, loop_cells,
                 elim_from, calls>>
  /\ UNCHANGED other_vars

NextSentenceMark == SentenceMarkMineCall \/ SentenceMarkSafeCall

SpecSentenceMark == InitSentence /\ [][NextSentenceMark]_vars

(* ------------------------------ runner --------------------------------- *)

(* "move = ai.make_safe_move(); if move is None: move =                    *)
(* ai.make_random_move()": the moves the AI button can produce.            *)
ai_move(ai) ==
  IF make_safe_move(ai) # {None} THEN make_safe_move(ai) ELSE make_random_move(ai)

(* "if move:": a mine ends the game, any other cell is revealed and handed *)
(* to add_knowledge with the Board's count.                                *)
ApplyMove(move) ==
  IF move \in layout
    THEN /\ lost' = TRUE
         /\ UNCHANGED <<layout, moves_made, safes, mines, knowledge, pc, scans,
                        loop_cells, elim_from, last_call, calls, args, result,
                        revealed>>
    ELSE /\ revealed' = revealed \cup {move}
         /\ BeginAddKnowledge(move, nearby_mines(layout, move))
         /\ lost' = lost

(* Left click on the "AI Move" button. *)
AIMove ==
  /\ pc = "ready"
  /\ ~lost
  /\ \E move \in ai_move(AI) :
       IF move = None
         THEN /\ flags' = mines
              /\ UNCHANGED <<layout, moves_made, safes, mines, knowledge, pc,
                             scans, loop_cells, elim_from, last_call, calls,
                             args, result, revealed, lost>>
         ELSE /\ ApplyMove(move)
              /\ flags' = flags
  /\ UNCHANGED <<state, by_minimax>>

(* Left click on a cell that is neither flagged nor revealed. *)
Reveal ==
  /\ pc = "ready"
  /\ ~lost
  /\ \E move \in Cells :
       /\ move \notin flags
       /\ move \notin revealed
       /\ ApplyMove(move)
  /\ UNCHANGED <<flags, state, by_minimax>>

(* Right click on a cell that is not revealed: the flag is toggled. *)
ToggleFlag ==
  /\ pc = "ready"
  /\ ~lost
  /\ \E cell \in Cells :
       /\ cell \notin revealed
       /\ IF cell \in flags
            THEN flags' = flags \ {cell}
            ELSE Cardinality(flags) < MaxFlags /\ flags' = flags \cup {cell}
  /\ UNCHANGED <<layout, moves_made, safes, mines, knowledge, pc, scans,
                 loop_cells, elim_from, last_call, calls, args, result,
                 revealed, lost, state, by_minimax>>

(* Left click on the "Reset" button: a new game and a new AI. *)
Reset ==
  /\ pc = "ready"
  /\ layout' \in PlayLayouts
  /\ moves_made' = {}
  /\ safes' = {}
  /\ mines' = {}
  /\ knowledge' = <<>>
  /\ revealed' = {}
  /\ flags' = {}
  /\ lost' = FALSE
  /\ scans' = 0
  /\ loop_cells' = 0
  /\ elim_from' = 0
  /\ last_call' = "none"
  /\ calls' = 0
  /\ args' = <<>>
  /\ result' = None
  /\ UNCHANGED <<pc, state, by_minimax>>

NextRunner ==
  \/ AIMove
  \/ Reveal
  \/ ToggleFlag
  \/ Reset
  \/ PropagateScan
  \/ SubsetElimination

SpecRunner == InitPlay /\ [][NextRunner]_vars

(* A game in which only the "AI Move" button is used, and is used as long  *)
(* as the game goes on.                                                    *)
NextAIGame == AIMove \/ PropagateScan \/ SubsetElimination

InitAIGame == layout \in AIGameLayouts /\ InitAI

SpecAIGame == InitAIGame /\ [][NextAIGame]_vars /\ WF_vars(NextAIGame)

(* A game of tictactoe: the board is initial_state().  The fields of the   *)
(* Minesweeper objects stay as constructed.                                *)
InitTicTacToe ==
  /\ layout = {}
  /\ moves_made = {}
  /\ safes = {}
  /\ mines = {}
  /\ knowledge = <<>>
  /\ pc = "ready"
  /\ scans = 0
  /\ loop_cells = 0
  /\ elim_from = 0
  /\ last_call = "none"
  /\ calls = 0
  /\ args = <<>>
  /\ result = None
  /\ revealed = {}
  /\ flags = {}
  /\ lost = FALSE
  /\ state = initial_state
  /\ by_minimax = TRUE

MinesweeperUnchanged ==
  UNCHANGED <<layout, moves_made, safes, mines, knowledge, pc, scans,
              loop_cells, elim_from, calls, revealed, flags, lost>>

(* The actions result is tried with: the grid and CoordMargin more on      *)
(* every side.                                                             *)
TryActions == (0 - CoordMargin .. 2 + CoordMargin) \X (0 - CoordMargin .. 2 + CoordMargin)

(* result(board, action) called on the board of the game, with any action. *)
Result ==
  /\ \E action \in TryActions :
       /\ result' = ttt_result(state, action)
       /\ args' = <<action>>
  /\ last_call' = "result"
  /\ UNCHANGED <<state, by_minimax>>
  /\ MinesweeperUnchanged

(* The game goes on with result(board, action), action in actions(board). *)
Play ==
  /\ \E action \in actions(state) :
       /\ state' = ttt_result(state, action).value
       /\ args' = <<action>>
  /\ last_call' = "play"
  /\ result' = None
  /\ by_minimax' = FALSE
  /\ MinesweeperUnchanged

NextTicTacToe == Result \/ Play

SpecTicTacToe == InitTicTacToe /\ [][NextTicTacToe]_vars

(* minimax(board) called on the board of a game that is played to its     *)
(* end: once for every position.                                           *)
Minimax ==
  /\ last_call # "minimax"
  /\ \E action \in minimax(state) : result' = action
  /\ last_call' = "minimax"
  /\ args' = <<>>
  /\ UNCHANGED <<state, by_minimax>>
  /\ MinesweeperUnchanged

(* The player to move takes the action minimax has returned. *)
MinimaxMove ==
  /\ last_call = "minimax"
  /\ result # None
  /\ state' = ttt_result(state, result).value
  /\ last_call' = "play"
  /\ result' = None
  /\ UNCHANGED <<args, by_minimax>>
  /\ MinesweeperUnchanged

(* The player to move takes any action, while the game is not over. *)
FreeMove ==
  /\ ~terminal(state)
  /\ \E action \in actions(state) : state' = ttt_result(state, action).value
  /\ last_call' = "play"
  /\ result' = None
  /\ args' = <<>>
  /\ by_minimax' = FALSE
  /\ MinesweeperUnchanged

NextMinimax == Minimax \/ MinimaxMove \/ FreeMove

SpecMinimax == InitTicTacToe /\ [][NextMinimax]_vars

(* model_check(knowledge, query) about to be called: the two sentences    *)
(* are the arguments.                                                      *)
InitLogic ==
  /\ layout = {}
  /\ moves_made = {}
  /\ safes = {}
  /\ mines = {}
  /\ knowledge = <<>>
  /\ pc = "ready"
  /\ scans = 0
  /\ loop_cells = 0
  /\ elim_from = 0
  /\ last_call = "none"
  /\ calls = 0
  /\ args \in Sentences(KnowledgeDepth) \X Sentences(QueryDepth)
  /\ result = None
  /\ revealed = {}
  /\ flags = {}
  /\ lost = FALSE
  /\ state = <<>>
  /\ by_minimax = TRUE

ModelCheck ==
  /\ last_call = "none"
  /\ result' = model_check(args[1], args[2])
  /\ last_call' = "model_check"
  /\ UNCHANGED <<args, state, by_minimax>>
  /\ MinesweeperUnchanged

NextLogic == ModelCheck

SpecLogic == InitLogic /\ [][NextLogic]_vars

(* Minesweeper(height, width, mines) under construction: no mine placed   *)
(* yet, the placement loop about to start.                                 *)
InitBoard ==
  /\ layout = {}
  /\ pc = IF Mines = 0 THEN "ready" ELSE "construct"
  /\ moves_made = {}
  /\ safes = {}
  /\ mines = {}
  /\ knowledge = <<>>
  /\ scans = 0
  /\ loop_cells = 0
  /\ elim_from = 0
  /\ last_call = "none"
  /\ calls = 0
  /\ args = <<>>
  /\ result = None
  /\ revealed = {}
  /\ flags = {}
  /\ lost = FALSE
  /\ state = <<>>
  /\ by_minimax = TRUE

(* One iteration of "while len(self.mines) != mines": a random cell gets a *)
(* mine unless it has one; the constructor returns when the test fails.    *)
PlaceMine ==
  /\ pc = "construct"
  /\ \E cell \in Cells :
       /\ layout' = IF cell \notin layout THEN layout \cup {cell} ELSE layout
       /\ args' = <<cell>>
  /\ pc' = IF Cardinality(layout') # Mines THEN "construct" ELSE "ready"
  /\ last_call' = "Minesweeper"
  /\ UNCHANGED <<moves_made, safes, mines, knowledge, scans, loop_cells,
                 elim_from, calls, result>>
  /\ UNCHANGED other_vars

IsMine ==
  /\ pc = "ready"
  /\ \E cell \in Cells : result' = (cell \in layout) /\ args' = <<cell>>
  /\ last_call' = "is_mine"
  /\ UNCHANGED <<layout, moves_made, safes, mines, knowledge, pc, scans,
                 loop_cells, elim_from, calls>>
  /\ UNCHANGED other_vars

NearbyMines ==
  /\ pc = "ready"
  /\ \E cell \in Cells : result' = nearby_mines(layout, cell) /\ args' = <<cell>>
  /\ last_call' = "nearby_mines"
  /\ UNCHANGED <<layout, moves_made, safes, mines, knowledge, pc, scans,
                 loop_cells, elim_from, calls>>
  /\ UNCHANGED other_vars

Won ==
  /\ pc = "ready"
  /\ result' = (mines_found = layout)
  /\ args' = <<>>
  /\ last_call' = "won"
  /\ UNCHANGED <<layout, moves_made, safes, mines, knowledge, pc, scans,
                 loop_cells, elim_from, calls>>
  /\ UNCHANGED other_vars

NextBoard == PlaceMine \/ IsMine \/ NearbyMines \/ Won

SpecBoard == InitBoard /\ [][NextBoard]_vars

NextObserve ==
  \/ ObserveAnyCount
  \/ PropagateScan
  \/ SubsetElimination
  \/ MakeSafeMove
  \/ MakeRandomMove

SpecObserve == Init /\ [][NextObserve]_vars

NextPlay == ObservePlay \/ PropagateScan \/ SubsetElimination

SpecPlay == InitPlay /\ [][NextPlay]_vars

(* ------------------------------ claims --------------------------------- *)

Returned == pc = "ready"

(* C1: after any sequence of add_knowledge, mark_mine and mark_safe calls, *)
(* with any cells, safes and mines are disjoint.                           *)
C1_SafesMinesDisjoint == Returned => safes \cap mines = {}

(* C2: soundness.  When every add_knowledge call is made on a cell without *)
(* a mine and with the Board's count, mines holds only cells of the layout,*)
(* safes holds no cell of the layout, and so a cell make_safe_move can     *)
(* return is never a mine.                                                 *)
C2_Soundness ==
  /\ mines \subseteq layout
  /\ safes \cap layout = {}
  /\ \A c \in make_safe_move_candidates : c \notin layout

C2_Witness ==
  /\ Returned
  /\ mines # {}
  /\ make_safe_move_candidates # {}

(* C3: at the return of every call no stored sentence holds a cell that is *)
(* in safes or in mines.                                                   *)
C3_SentencesUnresolved ==
  Returned =>
    \A i \in DOMAIN knowledge : knowledge[i].cells \cap (safes \cup mines) = {}

C3_Witness ==
  /\ Returned
  /\ mines # {}
  /\ Cardinality(safes) >= 2
  /\ \E i \in DOMAIN knowledge : knowledge[i].cells # {}
  /\ Len(knowledge) > elim_from

(* C4: after any sequence of add_knowledge calls no two stored sentences   *)
(* are equal (same cells and same count).                                  *)
C4_NoDuplicates ==
  Returned =>
    \A i, j \in DOMAIN knowledge : i # j => knowledge[i] # knowledge[j]

(* C5: at the return of every call every stored sentence has at least one  *)
(* cell.                                                                   *)
C5_NoEmptySentence ==
  Returned => \A i \in DOMAIN knowledge : knowledge[i].cells # {}

(* C6: add_knowledge for a cell already in moves_made, with the same       *)
(* count, changes neither moves_made, safes, mines nor knowledge.          *)
C6_SecondObserveNoOp ==
  Returned =>
    \A c \in moves_made : add_knowledge(AI, c, nearby_mines(layout, c)) = AI

(* C7: mines, safes and moves_made only grow: after every step each is a   *)
(* superset of what it was before.                                         *)
C7_Monotonic ==
  [][/\ mines \subseteq mines'
     /\ safes \subseteq safes'
     /\ moves_made \subseteq moves_made']_vars

C7_Witness ==
  /\ Returned
  /\ mines # {}
  /\ Cardinality(safes) >= 2
  /\ Cardinality(moves_made) >= 2

(* C8: the propagation loop terminates, also with inconsistent counts:     *)
(* every scan that sets changes_made leaves strictly fewer cells in the    *)
(* stored sentences, and a call makes at most loop_cells + 1 scans.        *)
C8_LoopTerminates ==
  [][/\ pc = "propagate" /\ scan(AI).changes_made
          => TotalCells(knowledge') < TotalCells(knowledge)
     /\ scans' <= loop_cells' + 1]_vars

C8_Witness ==
  /\ pc = "eliminate"
  /\ scans >= 3
  /\ \E i \in DOMAIN knowledge : knowledge[i].count < 0

(* C9: when add_knowledge returns, every sentence that was stored before   *)
(* its subset-elimination pass has empty known_mines() and empty           *)
(* known_safes().                                                          *)
C9_Fixpoint ==
  Returned /\ last_call = "add_knowledge" =>
    \A i \in 1 .. elim_from :
      known_mines(knowledge[i]) = {} /\ known_safes(knowledge[i]) = {}

C9_Witness ==
  /\ Returned
  /\ last_call = "add_knowledge"
  /\ scans >= 2
  /\ \E i \in 1 .. elim_from : knowledge[i].cells # {}

(* C10: with truthful observations every stored sentence has               *)
(* 0 <= count <= |cells|.                                                  *)
C10_CountInRange ==
  \A i \in DOMAIN knowledge :
    /\ 0 <= knowledge[i].count
    /\ knowledge[i].count <= Cardinality(knowledge[i].cells)

C10_Witness ==
  /\ Returned
  /\ mines # {}
  /\ Len(knowledge) > elim_from
  /\ \E i \in DOMAIN knowledge :
       /\ knowledge[i].count >= 1
       /\ knowledge[i].count < Cardinality(knowledge[i].cells)

(* C11: add_knowledge(cell, count) puts cell in moves_made and in safes    *)
(* and builds its sentence from exactly the in-bounds cells among the 8    *)
(* around cell that are in neither mines nor safes, with count lowered by  *)
(* one for each in-bounds neighbour in mines; the sentence is appended iff *)
(* it has a cell.                                                          *)
C11_NewSentence ==
  [][pc = "ready" /\ pc' = "propagate" =>
      LET cell == args'[1]
          count == args'[2]
          around == {<<cell[1] + dr, cell[2] + dc>> :
                       dr \in {-1, 0, 1}, dc \in {-1, 0, 1}} \ {cell}
          inside == {n \in around : /\ 0 <= n[1] /\ n[1] < Height
                                    /\ 0 <= n[2] /\ n[2] < Width}
          unresolved == {n \in inside : n \notin mines /\ n \notin safes'}
          adjusted == count - Cardinality({n \in inside : n \in mines})
      IN /\ cell \in moves_made'
         /\ cell \in safes'
         /\ IF unresolved # {}
              THEN /\ Len(knowledge') = Len(knowledge) + 1
                   /\ knowledge'[Len(knowledge')] =
                        [cells |-> unresolved, count |-> adjusted]
              ELSE Len(knowledge') = Len(knowledge)]_vars

C11_Witness ==
  /\ pc = "propagate"
  /\ scans = 0
  /\ args[1] = <<0, 0>>
  /\ Len(knowledge) >= 2
  /\ knowledge[Len(knowledge)].count < args[2]
  /\ Cardinality(knowledge[Len(knowledge)].cells) = 1
  /\ safes \cap Neighbors(args[1]) # {}

(* C12: for every two distinct sentences A, B stored when the elimination  *)
(* pass starts, with A.cells a subset of B.cells and B.cells - A.cells not *)
(* empty, a sentence (B.cells - A.cells, B.count - A.count) is stored when *)
(* add_knowledge returns; no sentence the pass appends is empty.           *)
C12_SubsetElimination ==
  [][pc = "eliminate" =>
      /\ \A a, b \in DOMAIN knowledge :
           /\ a # b
           /\ knowledge[a].cells \subseteq knowledge[b].cells
           /\ knowledge[b].cells \ knowledge[a].cells # {}
           => \E k \in DOMAIN knowledge' :
                knowledge'[k] =
                  [cells |-> knowledge[b].cells \ knowledge[a].cells,
                   count |-> knowledge[b].count - knowledge[a].count]
      /\ \A k \in (Len(knowledge) + 1) .. Len(knowledge') :
           knowledge'[k].cells # {}]_vars

C12_Witness ==
  /\ Returned
  /\ last_call = "add_knowledge"
  /\ \E a, b \in 1 .. elim_from, k \in (elim_from + 1) .. Len(knowledge) :
       /\ a > b
       /\ knowledge[a].cells # {}
       /\ knowledge[a].cells \subseteq knowledge[b].cells
       /\ knowledge[k] = [cells |-> knowledge[b].cells \ knowledge[a].cells,
                          count |-> knowledge[b].count - knowledge[a].count]
       /\ Cardinality(knowledge[k].cells) = 1
       /\ knowledge[k].count = 1

(* C13: subset elimination runs once per add_knowledge call, after the     *)
(* propagation loop, and only appends sentences, each the difference of    *)
(* two sentences stored before the pass; with truthful observations the    *)
(* cells an appended sentence determines are not in mines (safes) when the *)
(* call returns and are in mines (safes) when the next call returns.       *)
C13_EliminationOnce ==
  LET appended == {knowledge[k] : k \in (elim_from + 1) .. Len(knowledge)}
      pending_mines == UNION {known_mines(s) : s \in appended}
      pending_safes == UNION {known_safes(s) : s \in appended}
      after_scan == scan(AI).ai
      after_pass == subset_elimination(AI)
  IN /\ pc = "propagate" => Len(after_scan.knowledge) = Len(knowledge)
     /\ pc = "eliminate" =>
          /\ after_pass.mines = mines
          /\ after_pass.safes = safes
          /\ after_pass.moves_made = moves_made
          /\ SubSeq(after_pass.knowledge, 1, Len(knowledge)) = knowledge
          /\ \A k \in (Len(knowledge) + 1) .. Len(after_pass.knowledge) :
               \E a, b \in DOMAIN knowledge :
                 /\ a # b
                 /\ knowledge[a].cells \subseteq knowledge[b].cells
                 /\ after_pass.knowledge[k] =
                      [cells |-> knowledge[b].cells \ knowledge[a].cells,
                       count |-> knowledge[b].count - knowledge[a].count]
     /\ Returned /\ last_call = "add_knowledge" =>
          /\ pending_mines \cap mines = {}
          /\ pending_safes \cap safes = {}
          /\ \A c \in Cells \ layout :
               LET next == add_knowledge(AI, c, nearby_mines(layout, c))
               IN /\ pending_mines \subseteq next.mines
                  /\ pending_safes \subseteq next.safes

C13_Witness ==
  /\ Returned
  /\ last_call = "add_knowledge"
  /\ \E k \in (elim_from + 1) .. Len(knowledge) : known_mines(knowledge[k]) # {}

(* C14: in a game with truthful observations, whenever make_safe_move and  *)
(* make_random_move both return None, every cell not in moves_made is a    *)
(* mine and the AI's mines are exactly the Board's mines.                  *)
C14_NoMovesLeft ==
  Returned /\ make_safe_move(AI) = {None} /\ make_random_move(AI) = {None} =>
    /\ Cells \ moves_made \subseteq layout
    /\ mines = layout

C14_Witness ==
  /\ Returned
  /\ make_safe_move(AI) = {None}
  /\ make_random_move(AI) = {None}
  /\ mines = layout
  /\ moves_made = Cells \ layout

(* C15: once every cell without a mine has been played, make_random_move   *)
(* returns None.                                                           *)
C15_RandomMoveNoneWhenComplete ==
  Returned /\ Cells \ layout \subseteq moves_made =>
    make_random_move(AI) = {None}

(* C16: make_random_move returns None if |moves_made| + |mines| >=         *)
(* height * width; otherwise it returns a board cell that is in neither    *)
(* moves_made nor mines, and never None.                                   *)
C16_RandomMove ==
  Returned /\ last_call = "make_random_move" =>
    IF Cardinality(moves_made) + Cardinality(mines) >= Height * Width
      THEN result = None
      ELSE /\ result # None
           /\ result \in Cells
           /\ result \notin moves_made
           /\ result \notin mines

C16_Witness ==
  /\ Returned
  /\ last_call = "make_random_move"
  /\ result = None
  /\ Cardinality(moves_made) + Cardinality(mines) >= Height * Width
  /\ moves_made \cap mines # {}

(* C18: make_safe_move returns a cell that is in safes, not in moves_made  *)
(* and not in mines whenever there is one, returns None exactly when there *)
(* is none, and changes nothing in the knowledge base.                     *)
C18_SafeMove ==
  [][last_call' = "make_safe_move" =>
      /\ moves_made' = moves_made
      /\ safes' = safes
      /\ mines' = mines
      /\ knowledge' = knowledge
      /\ IF \E c \in safes : c \notin moves_made /\ c \notin mines
           THEN /\ result' \in safes
                /\ result' \notin moves_made
                /\ result' \notin mines
           ELSE result' = None]_vars

C18_Witness ==
  /\ Returned
  /\ last_call = "make_safe_move"
  /\ result # None
  /\ safes \cap mines # {}
  /\ moves_made # {}

(* C19: mark_mine(cell) changes nothing if cell is in mines; otherwise it  *)
(* adds cell to mines and removes it, with one off the count, from every   *)
(* stored sentence that holds it.  mark_safe(cell) does the same with      *)
(* safes, leaving the counts.  A second call with the same cell changes    *)
(* nothing.                                                                *)
C19_MarkIdempotent ==
  [][LET cell == args'[1]
         after == [moves_made |-> moves_made', safes |-> safes',
                   mines |-> mines', knowledge |-> knowledge']
     IN /\ last_call' = "mark_mine" =>
             /\ IF cell \in mines
                  THEN after = AI
                  ELSE /\ mines' = mines \cup {cell}
                       /\ safes' = safes
                       /\ moves_made' = moves_made
                       /\ knowledge' =
                            [i \in DOMAIN knowledge |->
                               IF cell \in knowledge[i].cells
                                 THEN [cells |-> knowledge[i].cells \ {cell},
                                       count |-> knowledge[i].count - 1]
                                 ELSE knowledge[i]]
             /\ mark_mine(after, cell) = after
        /\ last_call' = "mark_safe" =>
             /\ IF cell \in safes
                  THEN after = AI
                  ELSE /\ safes' = safes \cup {cell}
                       /\ mines' = mines
                       /\ moves_made' = moves_made
                       /\ knowledge' =
                            [i \in DOMAIN knowledge |->
                               IF cell \in knowledge[i].cells
                                 THEN [cells |-> knowledge[i].cells \ {cell},
                                       count |-> knowledge[i].count]
                                 ELSE knowledge[i]]
             /\ mark_safe(after, cell) = after]_vars

C19_Witness ==
  /\ Returned
  /\ last_call = "mark_mine"
  /\ args[1] \in mines
  /\ \E i \in DOMAIN knowledge :
       /\ knowledge[i].count = 0
       /\ knowledge[i].cells # {}
       /\ args[1] \in UNION {Neighbors(c) : c \in moves_made}

(* C20: known_mines() returns the sentence's cells if |cells| = count and  *)
(* count > 0, otherwise the empty set; known_safes() returns the cells if  *)
(* count = 0, otherwise the empty set; neither changes the sentence.       *)
C20_KnownCells ==
  [][LET s == knowledge[args'[1]]
     IN /\ last_call' = "known_mines" =>
             /\ result' = IF Cardinality(s.cells) = s.count /\ s.count > 0
                            THEN s.cells ELSE {}
             /\ knowledge' = knowledge
        /\ last_call' = "known_safes" =>
             /\ result' = IF s.count = 0 THEN s.cells ELSE {}
             /\ knowledge' = knowledge]_vars

C20_Witness ==
  /\ last_call = "known_mines"
  /\ result # {}
  /\ result = knowledge[1].cells
  /\ Cardinality(result) = MaxCount

(* C21: Sentence.mark_mine(cell) removes exactly cell, lowers count by one *)
(* and returns True when cell is in cells, and otherwise returns False and *)
(* changes nothing; Sentence.mark_safe(cell) removes exactly cell, keeps   *)
(* count and returns True when cell is in cells, and otherwise returns     *)
(* False and changes nothing.                                              *)
C21_SentenceMark ==
  [][LET s == knowledge[1]
         t == knowledge'[1]
         cell == args'[1]
     IN /\ last_call' = "Sentence.mark_mine" =>
             IF cell \in s.cells
               THEN /\ t.cells = s.cells \ {cell}
                    /\ t.count = s.count - 1
                    /\ result' = TRUE
               ELSE t = s /\ result' = FALSE
        /\ last_call' = "Sentence.mark_safe" =>
             IF cell \in s.cells
               THEN /\ t.cells = s.cells \ {cell}
                    /\ t.count = s.count
                    /\ result' = TRUE
               ELSE t = s /\ result' = FALSE]_vars

C21_Witness ==
  /\ last_call = "Sentence.mark_safe"
  /\ result = TRUE
  /\ knowledge[1].cells # {}
  /\ knowledge[1].count > 0

(* C22: nearby_mines(cell) is the number of mines of the layout among the  *)
(* in-bounds cells of the 8 positions around cell, cell itself never       *)
(* counted, so it lies in 0..8; the constructed layout has exactly the     *)
(* configured number of mines, and is_mine, nearby_mines and won do not    *)
(* change it.                                                              *)
C22_Around(cell) ==
  {<<cell[1] + di, cell[2] + dj>> : di \in -1 .. 1, dj \in -1 .. 1} \ {cell}

C22_Board ==
  [][/\ pc' = "ready" => Cardinality(layout') = Mines
     /\ pc = "ready" => layout' = layout
     /\ last_call' = "nearby_mines" =>
          /\ result' = Cardinality({n \in C22_Around(args'[1]) :
                                      n \in Cells /\ n \in layout})
          /\ result' \in 0 .. 8]_vars

C22_Witness ==
  /\ last_call = "nearby_mines"
  /\ args[1] \in layout
  /\ result > 0

(* C23: a game played by the AI alone terminates.  Every move handed to    *)
(* add_knowledge is a cell that was not in moves_made, at most             *)
(* height*width moves are applied, the losing one included, and the game   *)
(* reaches "lost" or "no moves left".                                      *)
C23_NoMovesLeft == Returned /\ ai_move(AI) = {None}

C23_Terminates ==
  /\ [][pc = "ready" /\ pc' = "propagate" =>
          /\ args'[1] \notin moves_made
          /\ moves_made' = moves_made \cup {args'[1]}]_vars
  /\ [](calls + (IF lost THEN 1 ELSE 0) <= Height * Width)
  /\ <>(lost \/ C23_NoMovesLeft)

C23_Witness ==
  /\ C23_NoMovesLeft
  /\ ~lost
  /\ flags = layout
  /\ calls = Height * Width - AIGameMines

(* C24: in any interleaving of reveals, flag toggles, AI moves and resets  *)
(* add_knowledge is called only for a cell that has no mine and is not in  *)
(* moves_made, and the revealed set equals moves_made.                     *)
C24_Precondition ==
  [][/\ revealed' = moves_made'
     /\ pc = "ready" /\ pc' = "propagate" =>
          /\ args'[1] \notin layout
          /\ args'[1] \notin moves_made
          /\ args'[2] = nearby_mines(layout, args'[1])]_vars

C24_Witness ==
  /\ Returned
  /\ flags # {}
  /\ flags # mines
  /\ Cardinality(revealed) >= 2
  /\ last_call = "add_knowledge"

(* C25: along every play of result(board, action) with action in          *)
(* actions(board) from initial_state(), the number of X minus the number   *)
(* of O is 0 or 1, and player(board) is X exactly when they are equal.     *)
C25_Count(board, mark) ==
  Cardinality({a \in Grid \X Grid : board[a[1]][a[2]] = mark})

C25_Alternation ==
  /\ C25_Count(state, X) - C25_Count(state, O) \in {0, 1}
  /\ player(state) = X <=> C25_Count(state, X) = C25_Count(state, O)

C25_Witness ==
  /\ C25_Count(state, X) = 5
  /\ C25_Count(state, O) = 4

(* C26: result(board, action) raises when action is outside the grid or    *)
(* its cell is not empty; otherwise it returns a board that differs from   *)
(* board only at action, where it holds the mark of player(board); board   *)
(* itself is unchanged.                                                    *)
C26_Result ==
  [][last_call' = "result" =>
       LET action == args'[1]
       IN /\ state' = state
          /\ IF action \notin Grid \X Grid THEN result'.raised
             ELSE IF state[action[1]][action[2]] # EMPTY THEN result'.raised
             ELSE /\ ~result'.raised
                  /\ result'.value[action[1]][action[2]] = player(state)
                  /\ \A a \in (Grid \X Grid) \ {action} :
                       result'.value[a[1]][a[2]] = state[a[1]][a[2]]]_vars

C26_Witness ==
  /\ last_call = "result"
  /\ result.raised
  /\ args[1] \in Grid \X Grid
  /\ state[args[1][1]][args[1][2]] = O

(* C27: minimax(board) returns None exactly when terminal(board);          *)
(* otherwise it returns an action of actions(board) whose resulting board  *)
(* has the largest game value when X is to move and the smallest when O is *)
(* to move; a game from initial_state() in which every move is minimax's   *)
(* ends in a tie.  The game value is the utility under best play of both   *)
(* sides, computed backwards from the full boards.                         *)
C27_Boards(k) ==
  {b \in [Grid -> [Grid -> {X, O, EMPTY}]] :
     /\ Cardinality(Marked(b)) = k
     /\ C25_Count(b, X) = (k + 1) \div 2}

RECURSIVE C27_Values(_)
C27_Values(k) ==
  IF k = 9 THEN [b \in C27_Boards(9) |-> utility(b)]
  ELSE LET later == C27_Values(k + 1)
           best(b) ==
             LET vs == {later[ttt_result(b, a).value] : a \in actions(b)}
             IN IF player(b) = X THEN Largest(vs) ELSE Smallest(vs)
       IN later @@ [b \in C27_Boards(k) |->
                      IF terminal(b) THEN utility(b) ELSE best(b)]

C27_GameValue == C27_Values(0)

C27_Minimax ==
  /\ last_call = "minimax" =>
       /\ result = None <=> terminal(state)
       /\ result # None =>
            /\ result \in actions(state)
            /\ C27_GameValue[ttt_result(state, result).value] =
                 C27_GameValue[state]
  /\ terminal(state) /\ by_minimax => utility(state) = 0

C27_Witness ==
  /\ last_call = "minimax"
  /\ result # None
  /\ ~by_minimax
  /\ player(state) = O
  /\ C27_GameValue[state] = -1

(* C28: model_check(knowledge, query) returns True exactly when every      *)
(* truth assignment that makes knowledge true makes query true, with Not,  *)
(* And, Or, Implication and Biconditional read by their truth tables (an   *)
(* And of no conjuncts is true, an Or of no disjuncts is false).           *)
RECURSIVE C28_Holds(_, _)
C28_Holds(sentence, assignment) ==
  CASE sentence.op = "Symbol" -> assignment[sentence.name]
    [] sentence.op = "Not" -> ~C28_Holds(sentence.operand, assignment)
    [] sentence.op = "And" ->
         \A i \in DOMAIN sentence.conjuncts :
           C28_Holds(sentence.conjuncts[i], assignment)
    [] sentence.op = "Or" ->
         \E i \in DOMAIN sentence.disjuncts :
           C28_Holds(sentence.disjuncts[i], assignment)
    [] sentence.op = "Implication" ->
         C28_Holds(sentence.antecedent, assignment) =>
           C28_Holds(sentence.consequent, assignment)
    [] sentence.op = "Biconditional" ->
         C28_Holds(sentence.left, assignment) <=>
           C28_Holds(sentence.right, assignment)

C28_Entails(kb, query) ==
  \A assignment \in [SymbolNames -> BOOLEAN] :
    C28_Holds(kb, assignment) => C28_Holds(query, assignment)

C28_ModelCheck ==
  last_call = "model_check" =>
    /\ ~result.raised
    /\ result.value <=> C28_Entails(args[1], args[2])

====
